---- MODULE Spec2Model ----
(***************************************************************************)
(* State-machine model of the two program variants of auto-devnet-request: *)
(*   - the scheduled-loop program (src/index.js), and                      *)
(*   - the HTTP service (src/unnamed/part_002).                            *)
(* A run executes one of the two programs (variable mode).  Every await of *)
(* the source is a separate step, so invocations of requestSol interleave  *)
(* exactly at the points where the JavaScript event loop can switch.       *)
(***************************************************************************)
EXTENDS Integers, Sequences, FiniteSets, TLC

\* ---------------------------------------------------------------- bounds
\* invocations of requestSol in the scheduled-loop program (startup + cron)
MaxCycles == 3
\* POST /request invocations in the HTTP service
MaxReqs == 2
\* invocations of requestSol in the scheduled-loop program run against a clock
MaxTimed == 4
\* the hours the clock runs after the start of the day the process starts in
MaxHours == 34
\* POST /request invocations of the HTTP service when they arrive one by one
MaxServe == 3
\* invocations of requestSol, in either program, when every call returns
MaxFair == 2

\* ---------------------------------------------------- program constants
TARGET_ADDRESS == "2gAwqZmY7nRi9XCNQs3CjfSzDiVe5npwK3yS7ijo3E8h"
SOL_AMOUNT == 5
MAX_REQUESTS_PER_SESSION == 2
LAMPORTS_PER_SOL == 1000000000
\* the literal 2 of Math.min(SOL_AMOUNT, 2)
AIRDROP_LIMIT == 2
\* the request job runs at minute 0 of every 8th hour of the day: '0 */8 * * *'
INTERVAL_HOURS == 8
\* the reset job runs at 00:00 of every day: '0 0 * * *'
HOURS_PER_DAY == 24

\* ------------------------------------------------------ JavaScript values
\* undefined / absent property
Undefined == "undefined"
\* null (a balance is Null or a one-element sequence holding the number)
Null == << >>
Min(a, b) == IF a <= b THEN a ELSE b
\* truthiness of a balance used as a condition: null and 0 are falsy
truthyBalance(b) == b # Null /\ b[1] # 0
\* truthiness of a string-or-undefined value
truthyString(s) == s # Undefined /\ s # ""
\* Number.prototype.toFixed(4) on the whole-SOL balances of the model
toFixed4(b) == ToString(b[1]) \o ".0000"

\* ----------------------------------------------- answers of the outside
\* the transaction identifiers the faucet and the ledger hand out
FaucetSignatures == {"5J7"}
AirdropSignatures == {"9K2"}
\* connection.getBalance: a lamport amount, or a transport error
RawBalances ==
  {[kind |-> "ok", value |-> v, message |-> Undefined] : v \in {0, 2 * LAMPORTS_PER_SOL}}
    \cup {[kind |-> "throw", value |-> 0, message |-> "failed to get balance"]}
\* axios.post(FAUCET_URL): a 2xx response body with or without a signature,
\* or a rejected promise (non-2xx status, timeout, connection error)
RawFaucet ==
  {[kind |-> "resp", signature |-> s, message |-> Undefined] : s \in FaucetSignatures \cup {Undefined}}
    \cup {[kind |-> "throw", signature |-> Undefined, message |-> "Request failed with status code 429"]}
\* connection.requestAirdrop: a signature, or a rejection
RawSubmit ==
  {[kind |-> "ok", signature |-> s, message |-> Undefined] : s \in AirdropSignatures}
    \cup {[kind |-> "throw", signature |-> Undefined, message |-> "airdrop request failed"]}
\* connection.confirmTransaction: resolved, or a rejection / timeout
RawConfirm ==
  {[kind |-> "ok", message |-> Undefined],
   [kind |-> "throw", message |-> "Transaction was not confirmed"]}

\* -------------------------------------------------------- lower-level calls
\* validateAddress: new PublicKey(address) accepts a base58 string of 32 bytes;
\* of the addresses of the model only the configured one is well-formed
Addresses == {TARGET_ADDRESS, "not-a-public-key"}
validateAddress(address) == address = TARGET_ADDRESS

\* getBalance, after its await: lamports / LAMPORTS_PER_SOL, or null
getBalance(raw) ==
  IF raw.kind = "ok" THEN << raw.value \div LAMPORTS_PER_SOL >> ELSE Null

\* a FundingResult; threw marks an exception that left the function
fundingResult(ok, sig, err) ==
  [threw |-> FALSE, success |-> ok, signature |-> sig, error |-> err]
thrown(msg) ==
  [threw |-> TRUE, success |-> FALSE, signature |-> Undefined, error |-> msg]
NoResult == fundingResult(FALSE, Undefined, Undefined)

\* requestDevnetSol: its catch block
faucetCatch(message) == fundingResult(FALSE, Undefined, message)
\* requestDevnetSol, after its await
requestDevnetSol(raw) ==
  IF raw.kind = "resp"
    THEN IF truthyString(raw.signature)
           THEN fundingResult(TRUE, raw.signature, Undefined)
           ELSE fundingResult(FALSE, Undefined, "No signature returned")
    ELSE faucetCatch(raw.message)

\* requestAirdrop: its catch block
\* variant: the catch block rethrows
airdropRethrow(message) == thrown(message)
airdropCatch(message) == fundingResult(FALSE, Undefined, message)
\* requestAirdrop: the return after the confirmation
airdropConfirmed(signature) == fundingResult(TRUE, signature, Undefined)

\* the amounts the orchestrator passes to the two clients
faucetAmount == SOL_AMOUNT
\* variant: the fallback asks for the full amount
airdropAmountFull == SOL_AMOUNT
airdropAmount == Min(SOL_AMOUNT, AIRDROP_LIMIT)

\* a record of one call: the client and the SOL amount it is given
call(client, amount) == [client |-> client, amount |-> amount]
\* a record of one return: the client and the success flag it reported
ret(client, res) == [client |-> client, success |-> res.success]

\* ------------------------------------------------------------------ state
VARIABLES
  mode,          \* "loop" (index.js) or "http" (part_002)
  address,       \* the configured target address
  proc,          \* position of initialize() / the process
  exitCode,      \* -1 while running, else the code given to process.exit
  requestCount,  \* index.js: let requestCount
  stats,         \* part_002: let stats (the three counters)
  frame,         \* per invocation of requestSol: pc and its local variables
  calls,         \* per invocation: the calls it made, in order
  rets,          \* per invocation: what those calls reported, in order
  reported,      \* part_002, per invocation: the last FundingResult a client gave
  outcome,       \* part_002, per invocation: the value requestSol returned
  response,      \* part_002, per invocation: the response POST /request sent
  clock,         \* the wall clock (whole hours) and the cron jobs due at this hour
  admitted,      \* per invocation the hour it was admitted; admissions since the reset
  view           \* part_002: the last response of GET / or GET /stats

vars == << mode, address, proc, exitCode, requestCount, stats, frame, calls,
           rets, reported, outcome, response, clock, admitted, view >>

Max(a, b) == IF a >= b THEN a ELSE b
MaxInv == Max(Max(Max(MaxCycles, MaxReqs), Max(MaxTimed, MaxServe)), MaxFair)
Invocations == 1 .. MaxInv
Cycles == 1 .. MaxCycles
Reqs == 1 .. MaxReqs

\* the frame of an invocation that has not started or whose locals are dead
NoFrame ==
  [pc |-> "idle", currentBalance |-> Null, result |-> NoResult,
   signature |-> Undefined, recheck |-> "none"]
NoOutcome ==
  [returned |-> FALSE, threw |-> FALSE, success |-> FALSE, message |-> Undefined,
   signature |-> Undefined, currentBalance |-> Null, requestedAmount |-> 0,
   error |-> Undefined]
NoResponse ==
  [sent |-> 0, status |-> 0, success |-> FALSE, message |-> Undefined,
   signature |-> Undefined, requestedAmount |-> 0, currentBalance |-> Undefined,
   error |-> Undefined]

\* the clock of a run in which time plays no part
NoClock == [now |-> 0, due |-> {}]
\* at: -1 until the invocation is admitted
NoneAdmitted == [at |-> [c \in Invocations |-> -1], sinceReset |-> 0]
NoStats == [totalRequests |-> 0, successfulRequests |-> 0, failedRequests |-> 0]
\* no GET request answered yet; pending: the handler awaits getBalance;
\* currentBalance: the balance text (the balance property of GET /balance);
\* balanceSOL: the number GET /balance answers with, Null in other responses
NoView ==
  [endpoint |-> Undefined, pending |-> FALSE, currentBalance |-> Undefined,
   balanceSOL |-> Null, successRate |-> Undefined]

Init ==
  /\ mode \in {"loop", "http"}
  /\ address \in Addresses
  /\ proc = "validate"
  /\ exitCode = -1
  /\ requestCount = 0
  /\ stats = NoStats
  /\ frame = [c \in Invocations |-> NoFrame]
  /\ calls = [c \in Invocations |-> << >>]
  /\ rets = [c \in Invocations |-> << >>]
  /\ reported = [c \in Invocations |-> NoResult]
  /\ outcome = [c \in Invocations |-> NoOutcome]
  /\ response = [c \in Invocations |-> NoResponse]
  /\ clock = NoClock
  /\ admitted = NoneAdmitted
  /\ view = NoView


\* ------------------------------------------------- orchestrator helpers
\* the steps of an invocation that is past its await and has not returned
InFlight == {"balance", "faucet", "airdrop", "confirm"}
\* the frame of a returned invocation: the locals are dead (the deferred
\* re-check of a successful cycle still holds currentBalance, but only to log
\* the difference, which the model does not record)
\* variant: the re-check is scheduled after every cycle
returnedFrameAlways(f, pcAfter, scheduleRecheck) ==
  [NoFrame EXCEPT !.pc = pcAfter, !.recheck = "pending"]
returnedFrame(f, pcAfter, scheduleRecheck) ==
  [NoFrame EXCEPT !.pc = pcAfter,
                  !.recheck = IF scheduleRecheck THEN "pending" ELSE "none"]

\* index.js: the session-limit test of requestSol
\* variant: the test is off by one
limitReachedOff(count) == count > MAX_REQUESTS_PER_SESSION
limitReached(count) == count >= MAX_REQUESTS_PER_SESSION

\* part_002: the three statistics updates of requestSol
\* variant: the request is not counted
countRequestNone(s) == s
countRequest(s) == [s EXCEPT !.totalRequests = @ + 1]
countSuccess(s) == [s EXCEPT !.successfulRequests = @ + 1]
\* variant: the failure is not counted
countFailureNone(s) == s
countFailure(s) == [s EXCEPT !.failedRequests = @ + 1]
settleStats(s, res) ==
  IF ~res.threw /\ res.success THEN countSuccess(s) ELSE countFailure(s)

\* part_002: the three return statements of requestSol
\* variant: a cycle without a balance is reported as failed
successOutcomeNeedsBalance(res, bal) ==
  [returned |-> TRUE, threw |-> FALSE, success |-> bal # Null,
   message |-> "SOL request completed successfully",
   signature |-> res.signature, currentBalance |-> bal,
   requestedAmount |-> IF truthyString(res.signature) THEN SOL_AMOUNT
                       ELSE Min(SOL_AMOUNT, AIRDROP_LIMIT),
   error |-> Undefined]
successOutcome(res, bal) ==
  [returned |-> TRUE, threw |-> FALSE, success |-> TRUE,
   message |-> "SOL request completed successfully",
   signature |-> res.signature, currentBalance |-> bal,
   requestedAmount |-> IF truthyString(res.signature) THEN SOL_AMOUNT
                       ELSE Min(SOL_AMOUNT, AIRDROP_LIMIT),
   error |-> Undefined]
\* variant: the failure detail is left out
failureOutcomeNoError(res, bal) ==
  [returned |-> TRUE, threw |-> FALSE, success |-> FALSE,
   message |-> "SOL request failed",
   signature |-> Undefined, currentBalance |-> bal, requestedAmount |-> 0,
   error |-> Undefined]
failureOutcome(res, bal) ==
  [returned |-> TRUE, threw |-> FALSE, success |-> FALSE,
   message |-> "SOL request failed",
   signature |-> Undefined, currentBalance |-> bal, requestedAmount |-> 0,
   error |-> res.error]
catchOutcome(message) ==
  [returned |-> TRUE, threw |-> FALSE, success |-> FALSE,
   message |-> "SOL request failed with error",
   signature |-> Undefined, currentBalance |-> Null, requestedAmount |-> 0,
   error |-> message]
requestSolReturn(res, bal) ==
  IF res.threw THEN catchOutcome(res.error)
  ELSE IF res.success THEN successOutcome(res, bal)
  ELSE failureOutcome(res, bal)

\* part_002: the balance text of a response
balanceText(b) == IF truthyBalance(b) THEN toFixed4(b) ELSE "Unknown"

\* variant: the failure branch does not set the status
postRequestAlways200(out) ==
  IF out.threw
    THEN [sent |-> 1, status |-> 500, success |-> FALSE,
          message |-> "Internal server error", signature |-> Undefined,
          requestedAmount |-> 0, currentBalance |-> Undefined,
          error |-> out.error]
  ELSE IF out.success
    THEN [sent |-> 1, status |-> 200, success |-> TRUE, message |-> out.message,
          signature |-> out.signature, requestedAmount |-> out.requestedAmount,
          currentBalance |-> balanceText(out.currentBalance),
          error |-> Undefined]
  ELSE [sent |-> 1, status |-> 200, success |-> FALSE, message |-> out.message,
        signature |-> Undefined, requestedAmount |-> 0,
        currentBalance |-> balanceText(out.currentBalance),
        error |-> out.error]

\* part_002: what the POST /request handler answers for a returned outcome
postRequest(out) ==
  IF out.threw
    THEN [sent |-> 1, status |-> 500, success |-> FALSE,
          message |-> "Internal server error", signature |-> Undefined,
          requestedAmount |-> 0, currentBalance |-> Undefined,
          error |-> out.error]
  ELSE IF out.success
    THEN [sent |-> 1, status |-> 200, success |-> TRUE, message |-> out.message,
          signature |-> out.signature, requestedAmount |-> out.requestedAmount,
          currentBalance |-> balanceText(out.currentBalance),
          error |-> Undefined]
  ELSE [sent |-> 1, status |-> 400, success |-> FALSE, message |-> out.message,
        signature |-> Undefined, requestedAmount |-> 0,
        currentBalance |-> balanceText(out.currentBalance),
        error |-> out.error]

\* ------------------------------------------------------------ HTTP service
httpVars == << stats, reported, outcome, response >>

\* initialize(): validate the address, or exit(1)
HttpInitialize ==
  /\ mode = "http" /\ proc = "validate" /\ exitCode = -1
  /\ IF validateAddress(address)
       THEN proc' = "initBalance" /\ UNCHANGED exitCode
       ELSE proc' = "exited" /\ exitCode' = 1
  /\ UNCHANGED << clock, view, admitted, mode, address, requestCount, frame, calls, rets, httpVars >>

\* initialize(): the initial balance is back (logged only); app.listen
HttpListen ==
  /\ mode = "http" /\ proc = "initBalance" /\ exitCode = -1
  /\ proc' = "listening"
  /\ UNCHANGED << clock, view, admitted, mode, address, exitCode, requestCount, frame, calls, rets, httpVars >>

\* requestSol returns res-derived outcome to the handler, which answers
HttpSettle(r, res) ==
  LET out == requestSolReturn(res, frame[r].currentBalance) IN
  /\ stats' = settleStats(stats, res)
  /\ reported' = [reported EXCEPT ![r] = res]
  /\ outcome' = [outcome EXCEPT ![r] = out]
  /\ response' = [response EXCEPT
                    ![r] = [postRequest(out) EXCEPT !.sent = response[r].sent + @]]
  /\ frame' = [frame EXCEPT
                 ![r] = returnedFrame(@, "done", ~res.threw /\ res.success)]

\* POST /request arrives: the handler calls requestSol, which runs up to the
\* await of getBalance
PostRequest(r) ==
  /\ mode = "http" /\ proc = "listening" /\ exitCode = -1
  /\ frame[r].pc = "idle"
  /\ IF r = 1 THEN TRUE ELSE frame[r - 1].pc # "idle"
  /\ stats' = countRequest(stats)
  /\ frame' = [frame EXCEPT ![r].pc = "balance"]
  /\ calls' = [calls EXCEPT ![r] = Append(@, call("balance", 0))]
  /\ UNCHANGED << clock, view, admitted, mode, address, proc, exitCode, requestCount, rets, reported, outcome, response >>

\* getBalance is back; requestDevnetSol is called and awaits axios.post
HttpBalanceReturn(r) ==
  /\ mode = "http" /\ exitCode = -1
  /\ frame[r].pc = "balance"
  /\ \E raw \in RawBalances :
       frame' = [frame EXCEPT ![r].pc = "faucet", ![r].currentBalance = getBalance(raw)]
  /\ calls' = [calls EXCEPT ![r] = Append(@, call("faucet", faucetAmount))]
  /\ UNCHANGED << clock, view, admitted, mode, address, proc, exitCode, requestCount, rets, httpVars >>

\* requestDevnetSol is back; on failure requestAirdrop is called and awaits
\* connection.requestAirdrop
HttpFaucetReturn(r) ==
  /\ mode = "http" /\ exitCode = -1
  /\ frame[r].pc = "faucet"
  /\ \E raw \in RawFaucet :
       LET res == requestDevnetSol(raw) IN
       /\ rets' = [rets EXCEPT ![r] = Append(@, ret("faucet", res))]
       /\ IF res.threw \/ res.success
            THEN HttpSettle(r, res) /\ UNCHANGED calls
            ELSE /\ frame' = [frame EXCEPT ![r].pc = "airdrop", ![r].result = res]
                 /\ calls' = [calls EXCEPT ![r] = Append(@, call("airdrop", airdropAmount))]
                 /\ UNCHANGED httpVars
  /\ UNCHANGED << clock, view, admitted, mode, address, proc, exitCode, requestCount >>

\* connection.requestAirdrop is back; requestAirdrop awaits the confirmation
HttpSubmitReturn(r) ==
  /\ mode = "http" /\ exitCode = -1
  /\ frame[r].pc = "airdrop"
  /\ \E raw \in RawSubmit :
       IF raw.kind = "ok"
         THEN /\ frame' = [frame EXCEPT ![r].pc = "confirm", ![r].signature = raw.signature]
              /\ UNCHANGED << rets, httpVars >>
         ELSE LET res == airdropCatch(raw.message) IN
              /\ rets' = [rets EXCEPT ![r] = Append(@, ret("airdrop", res))]
              /\ HttpSettle(r, res)
  /\ UNCHANGED << clock, view, admitted, mode, address, proc, exitCode, requestCount, calls >>

\* variant: a rejected confirmation is not caught and the handler never answers
HttpConfirmReturnLost(r) ==
  /\ mode = "http" /\ exitCode = -1
  /\ frame[r].pc = "confirm"
  /\ \E raw \in RawConfirm :
       IF raw.kind = "ok"
         THEN LET res == airdropConfirmed(frame[r].signature) IN
              /\ rets' = [rets EXCEPT ![r] = Append(@, ret("airdrop", res))]
              /\ HttpSettle(r, res)
         ELSE /\ frame' = [frame EXCEPT ![r].pc = "lost"]
              /\ UNCHANGED << rets, httpVars >>
  /\ UNCHANGED << clock, view, admitted, mode, address, proc, exitCode, requestCount, calls >>

\* connection.confirmTransaction is back; requestAirdrop and requestSol return
HttpConfirmReturn(r) ==
  /\ mode = "http" /\ exitCode = -1
  /\ frame[r].pc = "confirm"
  /\ \E raw \in RawConfirm :
       LET res == IF raw.kind = "ok" THEN airdropConfirmed(frame[r].signature)
                  ELSE airdropCatch(raw.message) IN
       /\ rets' = [rets EXCEPT ![r] = Append(@, ret("airdrop", res))]
       /\ HttpSettle(r, res)
  /\ UNCHANGED << clock, view, admitted, mode, address, proc, exitCode, requestCount, calls >>

\* the setTimeout callback of a successful cycle: reads the balance and logs
HttpRecheck(r) ==
  /\ mode = "http" /\ exitCode = -1
  /\ frame[r].recheck = "pending"
  /\ frame' = [frame EXCEPT ![r].recheck = "ran"]
  /\ calls' = [calls EXCEPT ![r] = Append(@, call("balance", 0))]
  /\ UNCHANGED << clock, view, admitted, mode, address, proc, exitCode, requestCount, rets, httpVars >>

HttpNext ==
  \/ HttpInitialize
  \/ HttpListen
  \/ \E r \in Reqs : PostRequest(r)
  \/ \E r \in Reqs : HttpBalanceReturn(r)
  \/ \E r \in Reqs : HttpFaucetReturn(r)
  \/ \E r \in Reqs : HttpSubmitReturn(r)
  \/ \E r \in Reqs : HttpConfirmReturn(r)
  \/ \E r \in Reqs : HttpRecheck(r)


\* -------------------------------------------------- scheduled-loop program
\* variant: a malformed address is logged and startup goes on
LoopInitializeNoExit ==
  /\ mode = "loop" /\ proc = "validate" /\ exitCode = -1
  /\ proc' = "initBalance"
  /\ UNCHANGED << clock, view, admitted, mode, address, exitCode, requestCount, frame, calls, rets, httpVars >>

\* initialize(): validate the address, or exit(1)
LoopInitialize ==
  /\ mode = "loop" /\ proc = "validate" /\ exitCode = -1
  /\ IF validateAddress(address)
       THEN proc' = "initBalance" /\ UNCHANGED exitCode
       ELSE proc' = "exited" /\ exitCode' = 1
  /\ UNCHANGED << clock, view, admitted, mode, address, requestCount, frame, calls, rets, httpVars >>

\* the record of an admission: the hour, and one more since the last reset
admit(c) ==
  [admitted EXCEPT !.at[c] = clock.now, !.sinceReset = @ + 1]

\* variant: the counter is incremented before the session-limit test
requestSolEnterCountsSkip(c) ==
  IF limitReached(requestCount)
    THEN /\ requestCount' = requestCount + 1
         /\ frame' = [frame EXCEPT ![c].pc = "skipped"]
         /\ UNCHANGED << calls, admitted >>
    ELSE /\ requestCount' = requestCount + 1
         /\ frame' = [frame EXCEPT ![c].pc = "balance"]
         /\ calls' = [calls EXCEPT ![c] = Append(@, call("balance", 0))]
         /\ admitted' = admit(c)

\* requestSol up to its first await: the session-limit test, the increment,
\* and the call of getBalance
requestSolEnter(c) ==
  IF limitReached(requestCount)
    THEN /\ frame' = [frame EXCEPT ![c].pc = "skipped"]
         /\ UNCHANGED << requestCount, calls, admitted >>
    ELSE /\ requestCount' = requestCount + 1
         /\ frame' = [frame EXCEPT ![c].pc = "balance"]
         /\ calls' = [calls EXCEPT ![c] = Append(@, call("balance", 0))]
         /\ admitted' = admit(c)

\* initialize(): the initial balance is back (logged only); the first
\* requestSol is called and awaited
LoopStartup ==
  /\ mode = "loop" /\ proc = "initBalance" /\ exitCode = -1
  /\ frame[1].pc = "idle"
  /\ proc' = "startup"
  /\ requestSolEnter(1)
  /\ UNCHANGED << clock, view, mode, address, exitCode, rets, httpVars >>

\* variant: the first requestSol is not awaited
LoopScheduleNoAwait ==
  /\ mode = "loop" /\ proc = "startup" /\ exitCode = -1
  /\ frame[1].pc # "idle"
  /\ proc' = "scheduled"
  /\ UNCHANGED << clock, view, admitted, mode, address, exitCode, requestCount, frame, calls, rets, httpVars >>

\* initialize(): the first requestSol has returned; both cron jobs are scheduled
LoopSchedule ==
  /\ mode = "loop" /\ proc = "startup" /\ exitCode = -1
  /\ frame[1].pc \in {"done", "skipped"}
  /\ proc' = "scheduled"
  /\ UNCHANGED << clock, view, admitted, mode, address, exitCode, requestCount, frame, calls, rets, httpVars >>

\* the 8-hourly cron job fires: requestSol is called
CronRequest(c) ==
  /\ mode = "loop" /\ proc = "scheduled" /\ exitCode = -1
  /\ frame[c].pc = "idle"
  /\ IF c = 1 THEN TRUE ELSE frame[c - 1].pc # "idle"
  /\ requestSolEnter(c)
  /\ UNCHANGED << clock, view, mode, address, proc, exitCode, rets, httpVars >>

\* variant: the counter is reset only once the limit has been reached
resetRequestCounterAtLimit ==
  /\ mode = "loop" /\ proc = "scheduled" /\ exitCode = -1
  /\ IF requestCount >= MAX_REQUESTS_PER_SESSION
       THEN requestCount' = 0
       ELSE UNCHANGED requestCount
  /\ admitted' = [admitted EXCEPT !.sinceReset = 0]
  /\ UNCHANGED << clock, view, mode, address, proc, exitCode, frame, calls, rets, httpVars >>

\* the daily cron job fires
resetRequestCounter ==
  /\ mode = "loop" /\ proc = "scheduled" /\ exitCode = -1
  /\ requestCount' = 0
  /\ admitted' = [admitted EXCEPT !.sinceReset = 0]
  /\ UNCHANGED << clock, view, mode, address, proc, exitCode, frame, calls, rets, httpVars >>

\* variant: a cycle that failed hands its slot of the session back
LoopSettleGivesBack(c, res) ==
  IF res.threw
    THEN /\ frame' = [frame EXCEPT ![c] = returnedFrame(@, "threw", FALSE)]
         /\ proc' = "exited" /\ exitCode' = 1
         /\ UNCHANGED requestCount
    ELSE /\ frame' = [frame EXCEPT ![c] = returnedFrame(@, "done", res.success)]
         /\ requestCount' = IF res.success THEN requestCount ELSE requestCount - 1
         /\ UNCHANGED << proc, exitCode >>

\* requestSol returns (nothing); an exception that leaves it rejects
\* initialize() or the cron callback and ends the process with code 1
LoopSettle(c, res) ==
  IF res.threw
    THEN /\ frame' = [frame EXCEPT ![c] = returnedFrame(@, "threw", FALSE)]
         /\ proc' = "exited" /\ exitCode' = 1
         /\ UNCHANGED requestCount
    ELSE /\ frame' = [frame EXCEPT ![c] = returnedFrame(@, "done", res.success)]
         /\ UNCHANGED << proc, exitCode, requestCount >>

\* getBalance is back; requestDevnetSol is called and awaits axios.post
LoopBalanceReturn(c) ==
  /\ mode = "loop" /\ exitCode = -1
  /\ frame[c].pc = "balance"
  /\ \E raw \in RawBalances :
       frame' = [frame EXCEPT ![c].pc = "faucet", ![c].currentBalance = getBalance(raw)]
  /\ calls' = [calls EXCEPT ![c] = Append(@, call("faucet", faucetAmount))]
  /\ UNCHANGED << clock, view, admitted, mode, address, proc, exitCode, requestCount, rets, httpVars >>

\* requestDevnetSol is back; on failure requestAirdrop is called and awaits
\* connection.requestAirdrop
LoopFaucetReturn(c) ==
  /\ mode = "loop" /\ exitCode = -1
  /\ frame[c].pc = "faucet"
  /\ \E raw \in RawFaucet :
       LET res == requestDevnetSol(raw) IN
       /\ rets' = [rets EXCEPT ![c] = Append(@, ret("faucet", res))]
       /\ IF res.threw \/ res.success
            THEN LoopSettle(c, res) /\ UNCHANGED calls
            ELSE /\ frame' = [frame EXCEPT ![c].pc = "airdrop", ![c].result = res]
                 /\ calls' = [calls EXCEPT ![c] = Append(@, call("airdrop", airdropAmount))]
                 /\ UNCHANGED << proc, exitCode, requestCount >>
  /\ UNCHANGED << clock, view, admitted, mode, address, httpVars >>

\* connection.requestAirdrop is back; requestAirdrop awaits the confirmation
LoopSubmitReturn(c) ==
  /\ mode = "loop" /\ exitCode = -1
  /\ frame[c].pc = "airdrop"
  /\ \E raw \in RawSubmit :
       IF raw.kind = "ok"
         THEN /\ frame' = [frame EXCEPT ![c].pc = "confirm", ![c].signature = raw.signature]
              /\ UNCHANGED << rets, proc, exitCode, requestCount >>
         ELSE LET res == airdropCatch(raw.message) IN
              /\ rets' = [rets EXCEPT ![c] = Append(@, ret("airdrop", res))]
              /\ LoopSettle(c, res)
  /\ UNCHANGED << clock, view, admitted, mode, address, calls, httpVars >>

\* connection.confirmTransaction is back; requestAirdrop and requestSol return
LoopConfirmReturn(c) ==
  /\ mode = "loop" /\ exitCode = -1
  /\ frame[c].pc = "confirm"
  /\ \E raw \in RawConfirm :
       LET res == IF raw.kind = "ok" THEN airdropConfirmed(frame[c].signature)
                  ELSE airdropCatch(raw.message) IN
       /\ rets' = [rets EXCEPT ![c] = Append(@, ret("airdrop", res))]
       /\ LoopSettle(c, res)
  /\ UNCHANGED << clock, view, admitted, mode, address, calls, httpVars >>

\* the setTimeout callback of a successful cycle: reads the balance and logs
LoopRecheck(c) ==
  /\ mode = "loop" /\ exitCode = -1
  /\ frame[c].recheck = "pending"
  /\ frame' = [frame EXCEPT ![c].recheck = "ran"]
  /\ calls' = [calls EXCEPT ![c] = Append(@, call("balance", 0))]
  /\ UNCHANGED << clock, view, admitted, mode, address, proc, exitCode, requestCount, rets, httpVars >>

LoopNext ==
  \/ LoopInitialize
  \/ LoopStartup
  \/ LoopSchedule
  \/ \E c \in Cycles : CronRequest(c)
  \/ resetRequestCounter
  \/ \E c \in Cycles : LoopBalanceReturn(c)
  \/ \E c \in Cycles : LoopFaucetReturn(c)
  \/ \E c \in Cycles : LoopSubmitReturn(c)
  \/ \E c \in Cycles : LoopConfirmReturn(c)
  \/ \E c \in Cycles : LoopRecheck(c)

Next == LoopNext \/ HttpNext

Spec == Init /\ [][Next]_vars


\* ------------------------------------------- both programs, calls return
\* Either program with the assumption that every remote call that is awaited
\* eventually returns a value or fails.
FairCycles == 1 .. MaxFair

FairNext ==
  \/ LoopInitialize
  \/ LoopStartup
  \/ LoopSchedule
  \/ \E c \in FairCycles : CronRequest(c)
  \/ resetRequestCounter
  \/ \E c \in FairCycles : LoopBalanceReturn(c)
  \/ \E c \in FairCycles : LoopFaucetReturn(c)
  \/ \E c \in FairCycles : LoopSubmitReturn(c)
  \/ \E c \in FairCycles : LoopConfirmReturn(c)
  \/ \E c \in FairCycles : LoopRecheck(c)
  \/ HttpInitialize
  \/ HttpListen
  \/ \E r \in FairCycles : PostRequest(r)
  \/ \E r \in FairCycles : HttpBalanceReturn(r)
  \/ \E r \in FairCycles : HttpFaucetReturn(r)
  \/ \E r \in FairCycles : HttpSubmitReturn(r)
  \/ \E r \in FairCycles : HttpConfirmReturn(r)
  \/ \E r \in FairCycles : HttpRecheck(r)

CallsReturn ==
  \A c \in FairCycles :
    /\ WF_vars(LoopBalanceReturn(c)) /\ WF_vars(HttpBalanceReturn(c))
    /\ WF_vars(LoopFaucetReturn(c)) /\ WF_vars(HttpFaucetReturn(c))
    /\ WF_vars(LoopSubmitReturn(c)) /\ WF_vars(HttpSubmitReturn(c))
    /\ WF_vars(LoopConfirmReturn(c)) /\ WF_vars(HttpConfirmReturn(c))

SpecFair == Init /\ [][FairNext]_vars /\ CallsReturn


\* ------------------------------------- scheduled-loop program on a clock
\* The loop program with its two cron jobs firing at their hours.  The process
\* starts at any hour of a day; a cycle and its deferred balance check end
\* within the hour they start in (the faucet post times out after 30 s, the
\* check runs after 5 s), so the clock advances between cycles.
TimedCycles == 1 .. MaxTimed

\* the cron jobs whose expression matches hour h (hours count from 00:00 of
\* the day the process starts in)
cronDue(h) ==
  (IF (h % HOURS_PER_DAY) % INTERVAL_HOURS = 0 THEN {"request"} ELSE {})
    \cup (IF h % HOURS_PER_DAY = 0 THEN {"reset"} ELSE {})

TimedInit ==
  /\ mode = "loop"
  /\ address \in Addresses
  /\ proc = "validate"
  /\ exitCode = -1
  /\ requestCount = 0
  /\ stats = NoStats
  /\ frame = [c \in Invocations |-> NoFrame]
  /\ calls = [c \in Invocations |-> << >>]
  /\ rets = [c \in Invocations |-> << >>]
  /\ reported = [c \in Invocations |-> NoResult]
  /\ outcome = [c \in Invocations |-> NoOutcome]
  /\ response = [c \in Invocations |-> NoResponse]
  /\ clock \in {[now |-> h, due |-> {}] : h \in 0 .. HOURS_PER_DAY - 1}
  /\ admitted = NoneAdmitted
  /\ view = NoView

\* an hour passes; the jobs matching the new hour become due
Tick ==
  /\ mode = "loop" /\ proc = "scheduled" /\ exitCode = -1
  /\ clock.due = {}
  /\ clock.now < MaxHours
  /\ \A c \in Invocations : frame[c].pc \notin InFlight /\ frame[c].recheck # "pending"
  /\ clock' = [now |-> clock.now + 1, due |-> cronDue(clock.now + 1)]
  /\ UNCHANGED << mode, address, proc, exitCode, requestCount, stats, frame, calls,
                  rets, reported, outcome, response, admitted, view >>

\* the request job fires at its hour: requestSol is called
TimedCronRequest(c) ==
  /\ mode = "loop" /\ proc = "scheduled" /\ exitCode = -1
  /\ "request" \in clock.due
  /\ frame[c].pc = "idle"
  /\ IF c = 1 THEN TRUE ELSE frame[c - 1].pc # "idle"
  /\ requestSolEnter(c)
  /\ clock' = [clock EXCEPT !.due = @ \ {"request"}]
  /\ UNCHANGED << view, mode, address, proc, exitCode, rets, httpVars >>

\* the reset job fires at midnight: resetRequestCounter is called
TimedCronReset ==
  /\ mode = "loop" /\ proc = "scheduled" /\ exitCode = -1
  /\ "reset" \in clock.due
  /\ requestCount' = 0
  /\ admitted' = [admitted EXCEPT !.sinceReset = 0]
  /\ clock' = [clock EXCEPT !.due = @ \ {"reset"}]
  /\ UNCHANGED << view, mode, address, proc, exitCode, frame, calls, rets, httpVars >>

TimedNext ==
  \/ LoopInitialize
  \/ LoopStartup
  \/ LoopSchedule
  \/ Tick
  \/ \E c \in TimedCycles : TimedCronRequest(c)
  \/ TimedCronReset
  \/ \E c \in TimedCycles : LoopBalanceReturn(c)
  \/ \E c \in TimedCycles : LoopFaucetReturn(c)
  \/ \E c \in TimedCycles : LoopSubmitReturn(c)
  \/ \E c \in TimedCycles : LoopConfirmReturn(c)
  \/ \E c \in TimedCycles : LoopRecheck(c)

SpecTimed == TimedInit /\ [][TimedNext]_vars


\* ------------------------------------- HTTP service, requests one by one
\* The service as its README deploys it: an external cron job posts to
\* /request every few hours, so a POST arrives after the previous one has been
\* answered and its deferred balance check has run; GET / and GET /stats
\* arrive at any moment.
ServeReqs == 1 .. MaxServe

\* two digits after the decimal point
pad2(n) == IF n < 10 THEN "0" \o ToString(n) ELSE ToString(n)
\* (num / den * 100).toFixed(2): the quotient in hundredths of a percent,
\* rounded to the nearest
hundredths(num, den) == (2 * 10000 * num + den) \div (2 * den)
toFixed2(h) == ToString(h \div 100) \o "." \o pad2(h % 100)
\* variant: the rate of the failed requests
successRateOfFailed(s) ==
  IF s.totalRequests > 0
    THEN toFixed2(hundredths(s.failedRequests, s.totalRequests)) \o "%"
    ELSE "0%"
\* the successRate property of GET / and GET /stats
successRate(s) ==
  IF s.totalRequests > 0
    THEN toFixed2(hundredths(s.successfulRequests, s.totalRequests)) \o "%"
    ELSE "0%"

\* POST /request arrives while no other request is being served
SerialPostRequest(r) ==
  /\ \A q \in Invocations : frame[q].pc \notin InFlight /\ frame[q].recheck # "pending"
  /\ PostRequest(r)

\* GET / arrives: the handler awaits getBalance
GetRoot ==
  /\ mode = "http" /\ proc = "listening" /\ exitCode = -1
  /\ ~view.pending
  /\ view' = [NoView EXCEPT !.endpoint = "/", !.pending = TRUE]
  /\ UNCHANGED << mode, address, proc, exitCode, requestCount, stats, frame, calls,
                  rets, reported, outcome, response, clock, admitted >>

\* GET /: getBalance is back; the handler answers with the counters of now
GetRootReturn ==
  /\ mode = "http" /\ exitCode = -1
  /\ view.pending /\ view.endpoint = "/"
  /\ \E raw \in RawBalances :
       view' = [endpoint |-> "/", pending |-> FALSE,
                currentBalance |-> balanceText(getBalance(raw)),
                balanceSOL |-> Null,
                successRate |-> successRate(stats)]
  /\ UNCHANGED << mode, address, proc, exitCode, requestCount, stats, frame, calls,
                  rets, reported, outcome, response, clock, admitted >>

\* GET /stats: answered at once
GetStats ==
  /\ mode = "http" /\ proc = "listening" /\ exitCode = -1
  /\ ~view.pending
  /\ view' = [endpoint |-> "/stats", pending |-> FALSE, currentBalance |-> Undefined,
              balanceSOL |-> Null, successRate |-> successRate(stats)]
  /\ UNCHANGED << mode, address, proc, exitCode, requestCount, stats, frame, calls,
                  rets, reported, outcome, response, clock, admitted >>

\* GET /balance arrives: the handler awaits getBalance
GetBalance ==
  /\ mode = "http" /\ proc = "listening" /\ exitCode = -1
  /\ ~view.pending
  /\ view' = [NoView EXCEPT !.endpoint = "/balance", !.pending = TRUE]
  /\ UNCHANGED << mode, address, proc, exitCode, requestCount, stats, frame, calls,
                  rets, reported, outcome, response, clock, admitted >>

\* GET /balance: getBalance is back; the handler answers balance and balanceSOL
GetBalanceReturn ==
  /\ mode = "http" /\ exitCode = -1
  /\ view.pending /\ view.endpoint = "/balance"
  /\ \E raw \in RawBalances :
       view' = [endpoint |-> "/balance", pending |-> FALSE,
                currentBalance |-> balanceText(getBalance(raw)),
                balanceSOL |-> getBalance(raw),
                successRate |-> Undefined]
  /\ UNCHANGED << mode, address, proc, exitCode, requestCount, stats, frame, calls,
                  rets, reported, outcome, response, clock, admitted >>

ServeInit == Init /\ mode = "http"

ServeNext ==
  \/ HttpInitialize
  \/ HttpListen
  \/ \E r \in ServeReqs : SerialPostRequest(r)
  \/ \E r \in ServeReqs : HttpBalanceReturn(r)
  \/ \E r \in ServeReqs : HttpFaucetReturn(r)
  \/ \E r \in ServeReqs : HttpSubmitReturn(r)
  \/ \E r \in ServeReqs : HttpConfirmReturn(r)
  \/ \E r \in ServeReqs : HttpRecheck(r)
  \/ GetRoot
  \/ GetRootReturn
  \/ GetStats

SpecServe == ServeInit /\ [][ServeNext]_vars

\* the service with its balance endpoint as well
ReadNext ==
  \/ ServeNext
  \/ GetBalance
  \/ GetBalanceReturn

SpecRead == ServeInit /\ [][ReadNext]_vars


\* ================================================================ claims
IsFunding(e) == e.client \in {"faucet", "airdrop"}
\* the calls an invocation made to the two funding clients, in order
funding(c) == SelectSeq(calls[c], IsFunding)
\* the invocation got past the session limit (or has none)
Admitted(c) == frame[c].pc \notin {"idle", "skipped"}
Returned(c) == frame[c].pc = "done"

\* C1: in both variants an admitted cycle calls the faucet client first and
\* exactly once; the airdrop client is called exactly once, after the faucet,
\* with an amount <= 2, when the faucet reported failure, and never when the
\* faucet reported success; no client is called twice in a cycle.
C1_FaucetThenAirdropOnce ==
  \A c \in Invocations :
    LET f == funding(c)
        r == rets[c] IN
    /\ ~Admitted(c) => f = << >>
    /\ Admitted(c) /\ frame[c].pc # "balance" =>
         Len(f) >= 1 /\ f[1] = call("faucet", SOL_AMOUNT)
    /\ Len(f) <= 2
    /\ Len(f) = 2 => f[2].client = "airdrop" /\ f[2].amount <= 2
    /\ Len(r) >= 1 /\ r[1].success => Len(f) = 1 /\ Len(r) = 1
    /\ Len(r) >= 1 /\ ~r[1].success => Len(f) = 2
    /\ Len(f) = 2 => Len(r) >= 1 /\ r[1] = [client |-> "faucet", success |-> FALSE]
    /\ Returned(c) => Len(r) = Len(f)
    /\ \A i \in 1 .. Len(r) : r[i].client = f[i].client

\* a loop cycle that fell back to the airdrop and one that did not, both returned
C1_Witness ==
  /\ mode = "loop"
  /\ \E c \in Cycles : Returned(c) /\ Len(funding(c)) = 2 /\ Len(rets[c]) = 2
  /\ \E c \in Cycles : Returned(c) /\ Len(funding(c)) = 1 /\ rets[c][1].success

\* C2: a requestSol invoked while requestCount >= MAX_REQUESTS_PER_SESSION
\* returns at once as skipped: no balance, faucet or airdrop call, the session
\* counter and the statistics unchanged; a skipped invocation never calls later.
C2_SkipStep ==
  \A c \in Cycles :
    (frame[c].pc = "idle" /\ frame'[c].pc # "idle"
       /\ requestCount >= MAX_REQUESTS_PER_SESSION)
    => /\ frame'[c].pc = "skipped"
       /\ calls' = calls /\ rets' = rets
       /\ requestCount' = requestCount
       /\ stats' = stats
C2_SkippedIsSilent ==
  \A c \in Cycles : frame[c].pc = "skipped" => calls[c] = << >> /\ rets[c] = << >>
C2_LimitReachedSkips == [][C2_SkipStep]_vars /\ []C2_SkippedIsSilent

\* a cycle was skipped while the counter stands at the limit
C2_Witness ==
  /\ requestCount = MAX_REQUESTS_PER_SESSION
  /\ \E c \in Cycles : frame[c].pc = "skipped"

\* C3: in the scheduled-loop program 0 <= requestCount <= MAX_REQUESTS_PER_SESSION
\* in every state, whatever the interleaving of requestSol and
\* resetRequestCounter; a cycle is admitted only when requestCount < limit.
C3_AdmitStep ==
  \A c \in Cycles :
    (frame[c].pc = "idle" /\ frame'[c].pc \notin {"idle", "skipped"})
    => /\ requestCount < MAX_REQUESTS_PER_SESSION
       /\ requestCount' = requestCount + 1
C3_CounterInRange ==
  mode = "loop" => 0 <= requestCount /\ requestCount <= MAX_REQUESTS_PER_SESSION
C3_CounterBounded == []C3_CounterInRange /\ [][mode = "loop" => C3_AdmitStep]_vars

\* the counter stands at the limit while two admitted cycles overlap
C3_Witness ==
  /\ mode = "loop"
  /\ requestCount = MAX_REQUESTS_PER_SESSION
  /\ \E c, d \in Cycles : c # d /\ frame[c].pc \in InFlight /\ frame[d].pc \in InFlight


\* ----------------------------------------------------- HTTP statistics
Started == {r \in Reqs : frame[r].pc # "idle"}
InProgress == {r \in Reqs : frame[r].pc \in InFlight}
Succeeded == {r \in Reqs : outcome[r].returned /\ outcome[r].success}
Failed == {r \in Reqs : outcome[r].returned /\ ~outcome[r].success}

\* C4 (as stated): in HTTP service mode, from the completion of the first
\* requestSol onward - also while other POST /request invocations are in
\* progress - totalRequests = successfulRequests + failedRequests.
C4_TotalsAlwaysBalanced ==
  (mode = "http" /\ \E r \in Reqs : outcome[r].returned)
    => stats.totalRequests = stats.successfulRequests + stats.failedRequests

\* C4 (amended): in HTTP service mode totalRequests = successfulRequests +
\* failedRequests + the number of requestSol invocations still in progress, so
\* the two sides are equal exactly when no orchestration is in progress.
C4_TotalsWithInProgress ==
  mode = "http" =>
    stats.totalRequests =
      stats.successfulRequests + stats.failedRequests + Cardinality(InProgress)

\* one orchestration has returned as failed while another is in progress
C4_Witness ==
  /\ mode = "http"
  /\ \E r \in Reqs : outcome[r].returned /\ ~outcome[r].success
  /\ InProgress # {}

\* C5: in HTTP service mode every POST /request increments totalRequests once
\* and exactly one of successfulRequests / failedRequests once, whatever the
\* interleaving: once all N invocations have completed, totalRequests = N and
\* successfulRequests + failedRequests = N.
C5_ExactlyOncePerRequest ==
  mode = "http" =>
    /\ stats.totalRequests = Cardinality(Started)
    /\ stats.successfulRequests = Cardinality(Succeeded)
    /\ stats.failedRequests = Cardinality(Failed)
    /\ InProgress = {} =>
         /\ stats.totalRequests = Cardinality(Started)
         /\ stats.successfulRequests + stats.failedRequests = Cardinality(Started)

\* every request of the run has completed, some succeeded and some failed
C5_Witness ==
  /\ mode = "http"
  /\ \A r \in Reqs : outcome[r].returned
  /\ Succeeded # {} /\ Failed # {}

\* ------------------------------------------------------- HTTP outcomes
AirdropErrors ==
  {x.message : x \in {y \in RawSubmit : y.kind = "throw"}}
    \cup {x.message : x \in {y \in RawConfirm : y.kind = "throw"}}
FaucetErrors ==
  {"No signature returned"} \cup {x.message : x \in {y \in RawFaucet : y.kind = "throw"}}
BothFailed(r) ==
  /\ Len(rets[r]) = 2
  /\ ~rets[r][1].success /\ ~rets[r][2].success
\* the client whose result settled the cycle
methodUsed(r) == rets[r][Len(rets[r])].client

\* C6: when both the faucet and the airdrop client report failure, the outcome
\* has success = false, its error is the detail the airdrop client returned
\* (not the faucet's), failedRequests grows by one and successfulRequests stays.
C6_State ==
  \A r \in Reqs :
    outcome[r].returned /\ BothFailed(r) =>
      /\ ~outcome[r].success
      /\ outcome[r].error = reported[r].error
      /\ outcome[r].error \in AirdropErrors
      /\ outcome[r].error \notin FaucetErrors
C6_Step ==
  \A r \in Reqs :
    (~outcome[r].returned /\ outcome'[r].returned
       /\ Len(rets'[r]) = 2 /\ ~rets'[r][2].success)
    => /\ stats'.failedRequests = stats.failedRequests + 1
       /\ stats'.successfulRequests = stats.successfulRequests
       /\ stats'.totalRequests = stats.totalRequests
C6_BothFailReportsAirdropError == []C6_State /\ [][C6_Step]_vars

\* both methods failed, the airdrop at its confirmation
C6_Witness ==
  \E r \in Reqs :
    /\ outcome[r].returned /\ BothFailed(r)
    /\ outcome[r].error = "Transaction was not confirmed"
    /\ stats.failedRequests = 1 /\ stats.successfulRequests = 0

\* C7 (as stated): a successful outcome has success = true, carries the
\* transaction identifier of the method that succeeded and identifies that
\* method: two successful outcomes that agree in everything but the
\* transaction identifier and the balance come from the same method.
sameButIdAndBalance(a, b) ==
  [a EXCEPT !.signature = Undefined, !.currentBalance = Null]
    = [b EXCEPT !.signature = Undefined, !.currentBalance = Null]
C7_OutcomeIdentifiesMethod ==
  /\ \A r \in Reqs :
       outcome[r].returned /\ reported[r].success =>
         /\ outcome[r].success
         /\ outcome[r].signature = reported[r].signature
  /\ \A r, q \in Reqs :
       (/\ outcome[r].returned /\ outcome[r].success
        /\ outcome[q].returned /\ outcome[q].success
        /\ sameButIdAndBalance(outcome[r], outcome[q]))
       => methodUsed(r) = methodUsed(q)

\* C8: the balance read never steers a cycle.  After the balance returns the
\* faucet is called whatever the value; invocations at the same step with the
\* same client results have made the same funding calls; returned requests
\* with the same client results have the same success, signature, error and
\* status; a successful cycle without a balance answers 200 with 'Unknown'.
C8_BalanceStep ==
  \A c \in Invocations :
    (frame[c].pc = "balance" /\ frame'[c].pc # "balance")
    => /\ frame'[c].pc = "faucet"
       /\ calls'[c] = Append(calls[c], [client |-> "faucet", amount |-> SOL_AMOUNT])
       /\ requestCount' = requestCount
       /\ stats' = stats
C8_SameResultsSameCycle ==
  /\ \A c, d \in Invocations :
       (Admitted(c) /\ frame[c].pc = frame[d].pc /\ rets[c] = rets[d])
       => /\ funding(c) = funding(d)
          /\ (frame[c].recheck = "none") = (frame[d].recheck = "none")
  /\ \A r, q \in Reqs :
       (/\ outcome[r].returned /\ outcome[q].returned
        /\ rets[r] = rets[q] /\ reported[r] = reported[q])
       => /\ outcome[r].success = outcome[q].success
          /\ outcome[r].signature = outcome[q].signature
          /\ outcome[r].error = outcome[q].error
          /\ response[r].status = response[q].status
  /\ \A r \in Reqs :
       (outcome[r].returned /\ reported[r].success /\ outcome[r].currentBalance = Null)
       => /\ outcome[r].success
          /\ response[r].status = 200
          /\ response[r].currentBalance = "Unknown"
C8_BalanceNeverSteers == []C8_SameResultsSameCycle /\ [][C8_BalanceStep]_vars

\* two successful requests with the same client results, one read a balance,
\* the other did not
C8_Witness ==
  \E r, q \in Reqs :
    /\ outcome[r].returned /\ outcome[q].returned
    /\ reported[r].success /\ reported[r] = reported[q] /\ rets[r] = rets[q]
    /\ outcome[r].currentBalance = Null
    /\ outcome[q].currentBalance # Null

\* C9: POST /request answers exactly once, when its one cycle has returned:
\* 200 iff the outcome has success = true, 400 when it has success = false,
\* 500 only when an error escaped the orchestration.
C9_StatusFollowsOutcome ==
  \A r \in Reqs :
    /\ response[r].sent <= 1
    /\ response[r].sent = 1 <=> outcome[r].returned
    /\ ~outcome[r].returned => response[r].status = 0
    /\ outcome[r].returned =>
         /\ response[r].status \in {200, 400, 500}
         /\ response[r].status = 200 <=> outcome[r].success
         /\ (~outcome[r].success /\ ~outcome[r].threw) => response[r].status = 400
         /\ response[r].status = 500 => outcome[r].threw
         /\ Len(funding(r)) \in {1, 2}

\* one request was answered 200 and another 400
C9_Witness ==
  /\ \E r \in Reqs : response[r].status = 200 /\ outcome[r].success
  /\ \E r \in Reqs : response[r].status = 400 /\ ~outcome[r].success

\* C10: no failure of the balance read, the faucet post, the airdrop
\* submission or the confirmation leaves requestSol as an exception, in either
\* variant: the process only exits for a malformed address, a cycle whose last
\* client failed returns normally, in HTTP mode by the success = false branch.
C10_NoExceptionEscapes ==
  /\ exitCode # -1 => proc = "exited" /\ address # TARGET_ADDRESS
  /\ \A c \in Invocations :
       /\ frame[c].pc # "threw"
       /\ ~outcome[c].threw
       /\ response[c].status # 500
       /\ \A i \in 1 .. Len(rets[c]) :
            (~rets[c][i].success /\ (i = 2 \/ rets[c][i].client = "airdrop"))
              => Returned(c)
       /\ (mode = "http" /\ Returned(c) /\ ~rets[c][Len(rets[c])].success)
            => /\ outcome[c].returned /\ ~outcome[c].success
               /\ outcome[c].message = "SOL request failed"

\* a loop cycle in which faucet and airdrop both failed has returned, another
\* cycle goes on without a balance, and the process is still running
C10_Witness ==
  /\ mode = "loop" /\ exitCode = -1
  /\ \E c \in Cycles : Returned(c) /\ BothFailed(c)
  /\ \E c \in Cycles : frame[c].pc = "faucet" /\ frame[c].currentBalance = Null

\* the invocations admitted before invocation c started
AdmittedBefore(c) == {q \in Invocations : q < c /\ Admitted(q)}

\* C11 (as stated): in HTTP service mode the session cap applies to
\* POST /request: a request that arrives after MAX_REQUESTS_PER_SESSION cycles
\* have been admitted (the service has no reset) is skipped and calls neither
\* the faucet client nor the airdrop client.
C11_PostRequestIsCapped ==
  mode = "http" =>
    \A r \in Invocations :
      Cardinality(AdmittedBefore(r)) >= MAX_REQUESTS_PER_SESSION
        => frame[r].pc \in {"idle", "skipped"} /\ funding(r) = << >>

\* the cycles admitted in the 24 hours that end with the admission of cycle c
AdmittedInWindow(c) ==
  {d \in Invocations :
     /\ admitted.at[d] >= 0
     /\ admitted.at[d] > admitted.at[c] - HOURS_PER_DAY
     /\ admitted.at[d] <= admitted.at[c]}

\* C12 (as stated): in scheduled-loop mode, whatever the hour the process
\* starts at, every rolling window of 24 hours holds at most
\* MAX_REQUESTS_PER_SESSION admitted cycles, the startup request included.
C12_RollingWindowCap ==
  mode = "loop" =>
    \A c \in Invocations :
      admitted.at[c] >= 0
        => Cardinality(AdmittedInWindow(c)) <= MAX_REQUESTS_PER_SESSION

\* C12 (amended): in scheduled-loop mode, whatever the hour the process starts
\* at, at most MAX_REQUESTS_PER_SESSION cycles are admitted between the start
\* of the process and the first daily reset, and between one daily reset and
\* the next; a window of 24 hours can hold more.
C12_SessionCap ==
  mode = "loop" => admitted.sinceReset <= MAX_REQUESTS_PER_SESSION

\* a third cycle was admitted within 24 hours of the first, after the reset
\* at midnight, with no more than the limit admitted since that reset
C12_Witness ==
  /\ mode = "loop" /\ clock.now >= HOURS_PER_DAY
  /\ admitted.sinceReset \in 1 .. MAX_REQUESTS_PER_SESSION
  /\ \E c \in Invocations :
       admitted.at[c] >= HOURS_PER_DAY /\ Cardinality(AdmittedInWindow(c)) > MAX_REQUESTS_PER_SESSION

\* a step of the daily job: the admissions since the last reset start anew
ResetStep == admitted'.sinceReset < admitted.sinceReset \/ requestCount' < requestCount

C13_ResetAlwaysPossible ==
  (mode = "loop" /\ proc = "scheduled" /\ exitCode = -1) => ENABLED resetRequestCounter
C13_Step ==
  /\ ResetStep =>
       /\ requestCount' = 0
       /\ UNCHANGED << mode, address, proc, exitCode, stats, frame, calls, rets,
                       reported, outcome, response >>
  /\ \A c \in Invocations :
       (mode = "loop" /\ requestCount = 0 /\ frame[c].pc = "idle" /\ frame'[c].pc # "idle")
         => frame'[c].pc = "balance" /\ requestCount' = 1

\* C13: the daily job can run whenever the timers are registered - at count
\* 0, below the limit or at the limit, also while a cycle is in progress -
\* and sets the session counter to 0 and changes nothing else; the requestSol
\* that follows a reset is admitted.
C13_ResetClearsCounter == []C13_ResetAlwaysPossible /\ [][C13_Step]_vars

\* three cycles were admitted, the third thanks to a reset that ran at the
\* limit while the second cycle was in progress
C13_Witness ==
  /\ mode = "loop" /\ requestCount = 1
  /\ \A c \in 1 .. 3 : Admitted(c)
  /\ frame[2].pc \in InFlight /\ frame[3].pc \in InFlight

Abs(x) == IF x < 0 THEN -x ELSE x
\* h hundredths of a percent is the 2-decimal value nearest to succ / total * 100
NearestHundredth(h, succ, total) ==
  /\ h \in 0 .. 100 * 100
  /\ 2 * Abs(h * total - 100 * 100 * succ) <= total

C14_CountersInRange ==
  mode = "http" =>
    /\ 0 <= stats.successfulRequests
    /\ stats.successfulRequests <= stats.totalRequests
\* a step in which GET / or GET /stats answers: the rate it reports is that
\* of the counters at that moment
C14_Step ==
  (mode = "http" /\ view' # view /\ ~view'.pending /\ view'.endpoint # "/balance") =>
    LET succ == stats.successfulRequests
        total == stats.totalRequests
    IN  /\ view'.endpoint \in {"/", "/stats"}
        /\ IF total = 0
             THEN view'.successRate = "0%"
             ELSE \E h \in {(100 * 100 * succ) \div total, (100 * 100 * succ) \div total + 1} :
                    /\ NearestHundredth(h, succ, total)
                    /\ view'.successRate = toFixed2(h) \o "%"

\* C14: the successRate that GET / and GET /stats report is "0%" when
\* totalRequests is 0 and otherwise successfulRequests / totalRequests * 100
\* to 2 decimal places; with the counters of any reachable state it lies
\* between 0 and 100.
C14_SuccessRate == []C14_CountersInRange /\ [][C14_Step]_vars

\* GET / reported two successes out of three requests
C14_Witness ==
  /\ view.endpoint = "/" /\ ~view.pending
  /\ stats.totalRequests = 3 /\ stats.successfulRequests = 2
  /\ view.successRate = "66.67%"

C15_State ==
  /\ ~validateAddress(address) =>
       /\ proc \in {"validate", "exited"}
       /\ proc = "exited" => exitCode = 1
       /\ requestCount = 0 /\ stats = NoStats /\ view = NoView
       /\ \A c \in Invocations : frame[c].pc = "idle" /\ calls[c] = << >>
  /\ validateAddress(address) => proc # "exited" /\ exitCode = -1
  /\ proc = "validate" => ENABLED (LoopInitialize \/ HttpInitialize)
C15_Step ==
  (proc = "validate" /\ proc' # "validate") =>
    IF validateAddress(address)
      THEN proc' = "initBalance" /\ exitCode' = -1
      ELSE proc' = "exited" /\ exitCode' = 1

\* C15: at startup, in both variants, a rejected address makes the process
\* exit with code 1 before any balance read, faucet or airdrop request, timer
\* or listener; an accepted address lets startup go on to the initial balance
\* read, and the process never exits.
C15_InvalidAddressExits == []C15_State /\ [][C15_Step]_vars

\* the loop program has exited with code 1 over a malformed address
C15_Witness ==
  /\ mode = "loop" /\ ~validateAddress(address)
  /\ proc = "exited" /\ exitCode = 1

IsFaucet(e) == e.client = "faucet"
\* the attempts an invocation made at the faucet
faucetAttempts(c) == Len(SelectSeq(calls[c], IsFaucet))

\* C16 (as stated): a failed request is retried by the program itself, after a
\* back-off delay, without waiting for the next trigger: no invocation
\* returns a failure after a single attempt at the faucet.
C16_FailureIsRetried ==
  \A c \in Invocations :
    (Returned(c) /\ BothFailed(c)) => faucetAttempts(c) >= 2

C17_CounterCountsAdmissions ==
  mode = "loop" => requestCount = admitted.sinceReset
C17_Step ==
  mode = "loop" =>
    \A c \in Invocations :
      /\ (frame[c].pc = "idle" /\ frame'[c].pc = "balance")
           => /\ requestCount' = requestCount + 1
              /\ calls'[c] = << call("balance", 0) >>
      /\ (frame[c].pc \in InFlight /\ frame'[c] # frame[c])
           => requestCount' = requestCount
      /\ (frame[c].pc = "idle" /\ frame'[c].pc # "idle"
            /\ admitted.sinceReset >= MAX_REQUESTS_PER_SESSION)
           => frame'[c].pc = "skipped" /\ calls'[c] = << >>

\* C17: in scheduled-loop mode an admitted cycle raises the session counter by
\* exactly one when it is admitted, before any client is called, and no later
\* step of the cycle - success or failure - gives the slot back: the counter
\* is the number of cycles admitted since the last reset, and a requestSol
\* after MAX_REQUESTS_PER_SESSION admitted cycles is skipped whatever their
\* outcomes were.
C17_FailedCyclesKeepTheirSlot == []C17_CounterCountsAdmissions /\ [][C17_Step]_vars

\* two cycles were admitted, in both the faucet and the airdrop failed, and
\* the third requestSol was skipped
C17_Witness ==
  /\ mode = "loop" /\ requestCount = MAX_REQUESTS_PER_SESSION
  /\ \A c \in 1 .. MAX_REQUESTS_PER_SESSION : Returned(c) /\ BothFailed(c)
  /\ frame[MAX_REQUESTS_PER_SESSION + 1].pc = "skipped"

\* the cycles of the loop program that await a balance, faucet or airdrop call
Awaiting == {c \in Invocations : frame[c].pc \in InFlight}

\* C18 (as stated): in scheduled-loop mode at most one orchestration is in
\* progress at any time.
C18_SingleWorker ==
  mode = "loop" => Cardinality(Awaiting) <= 1

C18_StartupFirst ==
  mode = "loop" =>
    /\ proc = "scheduled" => frame[1].pc \in {"done", "skipped"}
    /\ \A c \in Invocations \ {1} :
         frame[c].pc # "idle" => frame[1].pc \in {"done", "skipped"}
C18_Step ==
  mode = "loop" =>
    /\ (proc # "scheduled" /\ proc' = "scheduled") => Awaiting = {}
    /\ ResetStep => proc = "scheduled"

\* C18 (amended): in scheduled-loop mode the startup request has returned
\* before the request and reset jobs are registered, so no scheduled cycle and
\* no reset overlaps it; a scheduled requestSol starts when its job fires,
\* whether or not an earlier one is still awaiting.
C18_StartupCompletesBeforeTimers == []C18_StartupFirst /\ [][C18_Step]_vars

\* the startup cycle has returned and two scheduled cycles overlap
C18_Witness ==
  /\ mode = "loop" /\ proc = "scheduled"
  /\ frame[1].pc = "done"
  /\ Cardinality(Awaiting) >= 2

C19_ScheduledIffSucceeded ==
  \A c \in Invocations :
    frame[c].recheck # "none"
      <=> (Returned(c) /\ rets[c][Len(rets[c])].success)
C19_Step ==
  \A c \in Invocations :
    (frame[c].recheck = "pending" /\ frame'[c].recheck = "ran") =>
      /\ UNCHANGED << proc, exitCode, requestCount, admitted, stats, rets,
                      reported, outcome, response >>
      /\ frame'[c].pc = frame[c].pc
      /\ calls'[c] = Append(calls[c], call("balance", 0))
      /\ \A d \in Invocations \ {c} : frame'[d] = frame[d] /\ calls'[d] = calls[d]

\* C19: the deferred balance re-check is scheduled exactly for the cycles that
\* succeeded; when it runs - at any later moment, between the steps of other
\* cycles - it reads the balance and leaves the statistics, the session
\* counter and every returned outcome and response as they were, and calls
\* neither the faucet nor the airdrop client.
C19_RecheckOnlyObserves == []C19_ScheduledIffSucceeded /\ [][C19_Step]_vars

\* the re-check of a successful request has run while a later request was
\* awaiting the airdrop
C19_Witness ==
  /\ mode = "http"
  /\ \E r \in Reqs : frame[r].recheck = "ran" /\ outcome[r].success
  /\ \E r \in Reqs : frame[r].pc \in {"airdrop", "confirm"}

\* C20: if every remote call eventually returns or fails, every cycle that
\* awaits a call eventually returns its outcome, and in HTTP mode the
\* POST /request that started it gets its one response.
C20_EveryCycleReturns ==
  \A c \in FairCycles :
    (frame[c].pc \in InFlight)
      ~> (frame[c].pc = "done" /\ (mode = "http" => response[c].sent = 1))

\* every POST /request has been answered, one of them after the faucet and
\* the confirmation of the airdrop had failed
C20_Witness ==
  /\ mode = "http"
  /\ \A r \in FairCycles : frame[r].pc = "done" /\ response[r].sent = 1
  /\ \E r \in FairCycles : response[r].error = "Transaction was not confirmed"

\* the SOL amount of the last call invocation r made to a funding client
amountRequested(r) == funding(r)[Len(funding(r))].amount

\* C21 (as stated): in a successful outcome of the HTTP variant, and in the
\* response built from it, requestedAmount is the amount that was asked of the
\* method that succeeded: SOL_AMOUNT from the faucet, min(SOL_AMOUNT, 2) from
\* the airdrop fallback.
C21_RequestedAmountIsActual ==
  mode = "http" =>
    \A r \in Reqs :
      (outcome[r].returned /\ outcome[r].success) =>
        /\ outcome[r].requestedAmount = amountRequested(r)
        /\ response[r].requestedAmount = amountRequested(r)
        /\ methodUsed(r) = "faucet" => outcome[r].requestedAmount = SOL_AMOUNT
        /\ methodUsed(r) = "airdrop"
             => outcome[r].requestedAmount = Min(SOL_AMOUNT, AIRDROP_LIMIT)

\* the text the claim expects for a balance lookup: the value to 4 decimals,
\* "Unknown" only for null
expectedBalanceText(b) == IF b = Null THEN "Unknown" ELSE toFixed4(b)

\* C22 (as stated): the balance text of a response is "Unknown" if and only
\* if the balance lookup gave null; a balance that was read, zero included, is
\* reported as its value.  Stated for the two responses that show the lookup
\* next to the text: POST /request (the currentBalance of the outcome) and
\* GET /balance (balanceSOL); GET / builds its text by the same expression.
C22_UnknownOnlyWhenUnavailable ==
  mode = "http" =>
    /\ \A r \in Invocations :
         (response[r].sent = 1 /\ response[r].status \in {200, 400}) =>
           response[r].currentBalance = expectedBalanceText(outcome[r].currentBalance)
    /\ (view.endpoint = "/balance" /\ ~view.pending) =>
         view.currentBalance = expectedBalanceText(view.balanceSOL)

====
